---------------------------- MODULE Spec2Model ----------------------------
(***************************************************************************)
(* A model of parsers/selectumproperty.py: the SelectumPropertyParser      *)
(* class.  Four specifications share the module:                           *)
(*   SpecExtractor   extract_realestates applied to page texts             *)
(*   SpecNormalizer  format_estate (with decode_text) applied to records   *)
(*   SpecPaginator   the loop of get_all_realestates over fetched pages    *)
(*                   (SpecPaginatorFair: the same, every call running on)  *)
(*   SpecSink        save_to_postgres against a keyed store                *)
(*                                                                         *)
(* A Python str is a sequence of code points (naturals).  Python values    *)
(* are tagged records; a dict is the sequence of its items in insertion    *)
(* order.  Python indices are 0-based; At(s, j) reads s[j].                *)
(***************************************************************************)
EXTENDS Integers, Sequences, FiniteSets, TLC

VARIABLES
    text,          \* extract_realestates: the page text passed in
    extract_ret,   \* extract_realestates: its outcome (Pending before the call)
    extract_src,   \* how the page text was composed (noise, payload, noise)
    estate,        \* format_estate: the record passed in
    format_ret,    \* format_estate: its outcome (Pending before the call)
    format_result, \* format_estate: its local result when the call ended
    pc,            \* get_all_realestates: idle, loop, done or raised
    max_pages,     \* get_all_realestates: its argument
    page,          \* get_all_realestates: the loop variable (Unbound before the loop binds it)
    estates,       \* get_all_realestates: the last page of records (Unbound likewise)
    all_estates,   \* get_all_realestates: the records accumulated
    fetched,       \* the requests made: page numbers and the texts that came back
    pages_logged,  \* the page count written to the log after the loop
    getall_ret,    \* get_all_realestates: its outcome (Pending before it ends)
    store,         \* the committed rows of public.realestates
    last_call,     \* save_to_postgres: the last call (its argument, fault and outcome)
    repeated,      \* the last call had the argument of the call before it, no fault in either
    changed        \* the last call changed the committed rows

extractVars == <<text, extract_ret, extract_src>>
formatVars == <<estate, format_ret, format_result>>
sinkVars == <<store, last_call, repeated, changed>>
pageVars == <<pc, max_pages, page, estates, all_estates, fetched, pages_logged, getall_ret>>

---------------------------------------------------------------------------
(* Characters.  The printable ASCII characters in code-point order, so     *)
(* that Ord(c) is ord(c) for U+0020..U+007E.  The backslash (U+005C) and   *)
(* the backtick (U+0060) are named, not written: no text of the model      *)
(* holds either.                                                           *)

Printable == <<
    " ","!","\"","#","$","%","&","'","(",")","*","+",",","-",".","/",
    "0","1","2","3","4","5","6","7","8","9",":",";","<","=",">","?",
    "@","A","B","C","D","E","F","G","H","I","J","K","L","M","N","O",
    "P","Q","R","S","T","U","V","W","X","Y","Z","[","backslash","]","^","_",
    "backtick","a","b","c","d","e","f","g","h","i","j","k","l","m","n","o",
    "p","q","r","s","t","u","v","w","x","y","z","{","|","}","~">>

Ord(c) == 31 + (CHOOSE i \in 1..Len(Printable) : Printable[i] = c)

\* The Python str spelled by a sequence of one-character strings.
Str(cs) == [i \in 1..Len(cs) |-> Ord(cs[i])]

At(s, j) == s[j + 1]

\* s[a:b] for 0 <= a, b <= len(s)
Slice(s, a, b) == SubSeq(s, a + 1, b)

---------------------------------------------------------------------------
(* Python values.                                                          *)

PNone == [t |-> "none"]
PBool(b) == [t |-> "bool", b |-> b]
PInt(n) == [t |-> "int", n |-> n]
PStr(s) == [t |-> "str", s |-> s]
PList(l) == [t |-> "list", l |-> l]
PDict(d) == [t |-> "dict", d |-> d]

EmptyList == PList(<<>>)

\* Outcome of a call: a returned value or an exception that escaped.
Return(v) == [kind |-> "return", val |-> v]
Raise(e) == [kind |-> "raise", exc |-> e]
Pending == [kind |-> "pending"]

\* bool(v)
Truthy(v) ==
    CASE v.t = "none" -> FALSE
      [] v.t = "bool" -> v.b
      [] v.t = "int" -> v.n # 0
      [] v.t = "str" -> v.s # <<>>
      [] v.t = "list" -> v.l # <<>>
      [] v.t = "dict" -> v.d # <<>>

Item(k, v) == [k |-> k, v |-> v]

\* k in d, for the item sequence d of a dict
DictHas(d, k) == \E i \in 1..Len(d) : d[i].k = k

\* d.get(k, default)
DictGet(d, k, default) ==
    IF DictHas(d, k) THEN d[CHOOSE i \in 1..Len(d) : d[i].k = k].v ELSE default

\* d[k] = v: an existing key keeps its position, a new key goes last
DictSet(d, k, v) ==
    IF DictHas(d, k)
    THEN [i \in 1..Len(d) |-> IF d[i].k = k THEN [k |-> k, v |-> v] ELSE d[i]]
    ELSE Append(d, [k |-> k, v |-> v])

---------------------------------------------------------------------------
(* JSON text.  Page texts are drawn over printable ASCII without the       *)
(* backslash, so string literals hold no escape sequences, and numbers     *)
(* are integers.                                                           *)

QUOTE == Ord("\"")
LBRACE == Ord("{")
RBRACE == Ord("}")
LBRACK == Ord("[")
RBRACK == Ord("]")
COMMA == Ord(",")
COLON == Ord(":")
SPACE == Ord(" ")
MINUS == Ord("-")
ZERO == Ord("0")

IsDigit(c) == c >= ZERO /\ c <= ZERO + 9

NullText == Str(<<"n","u","l","l">>)
TrueText == Str(<<"t","r","u","e">>)
FalseText == Str(<<"f","a","l","s","e">>)

RECURSIVE Decimal(_)
Decimal(n) ==
    IF n < 10 THEN <<ZERO + n>> ELSE Append(Decimal(n \div 10), ZERO + (n % 10))

RECURSIVE Dumps(_)
RECURSIVE DumpsItems(_, _)
\* The compact serialization of a value, as the site embeds it in a page.
Dumps(v) ==
    CASE v.t = "none" -> NullText
      [] v.t = "bool" -> IF v.b THEN TrueText ELSE FalseText
      [] v.t = "int" -> IF v.n < 0 THEN <<MINUS>> \o Decimal(-v.n) ELSE Decimal(v.n)
      [] v.t = "str" -> <<QUOTE>> \o v.s \o <<QUOTE>>
      [] v.t = "list" -> <<LBRACK>> \o DumpsItems(v, 1) \o <<RBRACK>>
      [] v.t = "dict" -> <<LBRACE>> \o DumpsItems(v, 1) \o <<RBRACE>>

DumpsItems(v, i) ==
    LET items == IF v.t = "list" THEN v.l ELSE v.d
        one == IF v.t = "list"
               THEN Dumps(items[i])
               ELSE <<QUOTE>> \o items[i].k \o <<QUOTE, COLON>> \o Dumps(items[i].v)
    IN  IF i > Len(items) THEN <<>>
        ELSE IF i = Len(items) THEN one
        ELSE one \o <<COMMA>> \o DumpsItems(v, i + 1)

\* A parse step: failure, or a value and the (1-based) index after it.
Fail == [ok |-> FALSE]
Ok(v, i) == [ok |-> TRUE, v |-> v, i |-> i]

Is(s, i, c) == i <= Len(s) /\ s[i] = c

StartsWith(s, i, w) == i + Len(w) - 1 <= Len(s) /\ SubSeq(s, i, i + Len(w) - 1) = w

RECURSIVE SkipWs(_, _)
SkipWs(s, i) == IF Is(s, i, SPACE) THEN SkipWs(s, i + 1) ELSE i

RECURSIVE DigitsEnd(_, _)
DigitsEnd(s, i) == IF i <= Len(s) /\ IsDigit(s[i]) THEN DigitsEnd(s, i + 1) ELSE i

RECURSIVE DigitsValue(_, _, _)
DigitsValue(s, i, j) ==
    IF j < i THEN 0 ELSE 10 * DigitsValue(s, i, j - 1) + (s[j] - ZERO)

\* s[i] is the opening quote: the literal runs to the next quote.
ParseString(s, i) ==
    IF \E j \in (i + 1)..Len(s) : s[j] = QUOTE
    THEN LET j == CHOOSE j \in (i + 1)..Len(s) :
                      s[j] = QUOTE /\ \A m \in (i + 1)..(j - 1) : s[m] # QUOTE
         IN  Ok(SubSeq(s, i + 1, j - 1), j + 1)
    ELSE Fail

\* -?(0|[1-9][0-9]*)
ParseNumber(s, i) ==
    LET neg == Is(s, i, MINUS)
        d == IF neg THEN i + 1 ELSE i
        e == IF Is(s, d, ZERO) THEN d + 1 ELSE DigitsEnd(s, d)
        n == DigitsValue(s, d, e - 1)
    IN  IF e = d THEN Fail ELSE Ok(PInt(IF neg THEN -n ELSE n), e)

RECURSIVE ParseValue(_, _)
RECURSIVE ParseElems(_, _, _)
RECURSIVE ParseMembers(_, _, _)

ParseValue(s, i) ==
    IF i > Len(s) THEN Fail
    ELSE IF s[i] = QUOTE THEN
        LET r == ParseString(s, i) IN IF r.ok THEN Ok(PStr(r.v), r.i) ELSE Fail
    ELSE IF s[i] = LBRACE THEN
        LET j == SkipWs(s, i + 1)
        IN  IF Is(s, j, RBRACE) THEN Ok(PDict(<<>>), j + 1) ELSE ParseMembers(s, j, <<>>)
    ELSE IF s[i] = LBRACK THEN
        LET j == SkipWs(s, i + 1)
        IN  IF Is(s, j, RBRACK) THEN Ok(EmptyList, j + 1) ELSE ParseElems(s, j, <<>>)
    ELSE IF StartsWith(s, i, NullText) THEN Ok(PNone, i + 4)
    ELSE IF StartsWith(s, i, TrueText) THEN Ok(PBool(TRUE), i + 4)
    ELSE IF StartsWith(s, i, FalseText) THEN Ok(PBool(FALSE), i + 5)
    ELSE IF s[i] = MINUS \/ IsDigit(s[i]) THEN ParseNumber(s, i)
    ELSE Fail

\* The elements of an array from index i, acc being those already read.
ParseElems(s, i, acc) ==
    LET r == ParseValue(s, i)
        j == SkipWs(s, r.i)
    IN  IF ~r.ok THEN Fail
        ELSE IF Is(s, j, RBRACK) THEN Ok(PList(Append(acc, r.v)), j + 1)
        ELSE IF Is(s, j, COMMA) THEN ParseElems(s, SkipWs(s, j + 1), Append(acc, r.v))
        ELSE Fail

\* The members of an object from index i; a repeated key keeps its last value.
ParseMembers(s, i, acc) ==
    LET k == ParseString(s, i)
        c == SkipWs(s, k.i)
        r == ParseValue(s, SkipWs(s, c + 1))
        j == SkipWs(s, r.i)
    IN  IF ~Is(s, i, QUOTE) THEN Fail
        ELSE IF ~k.ok THEN Fail
        ELSE IF ~Is(s, c, COLON) THEN Fail
        ELSE IF ~r.ok THEN Fail
        ELSE IF Is(s, j, RBRACE) THEN Ok(PDict(DictSet(acc, k.v, r.v)), j + 1)
        ELSE IF Is(s, j, COMMA)
             THEN ParseMembers(s, SkipWs(s, j + 1), DictSet(acc, k.v, r.v))
        ELSE Fail

\* json.loads(s): a value, optional whitespace around it, nothing after it.
json_loads(s) ==
    LET r == ParseValue(s, SkipWs(s, 1))
    IN  IF r.ok /\ SkipWs(s, r.i) = Len(s) + 1 THEN Return(r.v) ELSE Raise("JSONDecodeError")

---------------------------------------------------------------------------
(* SelectumPropertyParser.extract_realestates                              *)

key == Str(<<
    "\"","r","e","a","l","E","s","t","a","t","e","s","D","a","t","a","\"",":","{">>)

\* the length of the key without its brace: where the value starts
ValueStart == Len(key) - 1

realEstates == Str(<<"r","e","a","l","E","s","t","a","t","e","s">>)

\* s.find(pat): the lowest index at which pat occurs in s, or -1
Find(s, pat) ==
    LET hits == {i \in 0..(Len(s) - Len(pat)) : Slice(s, i, i + Len(pat)) = pat}
    IN  IF hits = {} THEN -1 ELSE CHOOSE i \in hits : \A h \in hits : i <= h

\* The lowest index from j on that holds a brace, or -1.  The loop changes
\* nothing at any other character.
NextBrace(s, j) ==
    LET at == {m \in j..(Len(s) - 1) : At(s, m) \in {LBRACE, RBRACE}}
    IN  IF at = {} THEN -1 ELSE CHOOSE m \in at : \A h \in at : m <= h

\* The for loop over j with its stack: the end index at the break, or -1
\* when the loop runs out (the else branch of the for).
RECURSIVE ScanEnd(_, _, _)
ScanEnd(s, j, stack) ==
    LET b == NextBrace(s, j)
        popped == SubSeq(stack, 1, Len(stack) - 1)
    IN  IF b = -1 THEN -1
        ELSE IF At(s, b) = LBRACE THEN ScanEnd(s, b + 1, Append(stack, LBRACE))
        ELSE IF popped = <<>> THEN b + 1
        ELSE ScanEnd(s, b + 1, popped)

\* extract_realestates without the else branch of its for loop: when the
\* scan runs out, end was never assigned and reading it raises.
extract_realestates_no_for_else(s) ==
    LET start == Find(s, key)
        i == start + Len(key) - 1
        end == ScanEnd(s, i + 1, <<LBRACE>>)
        block == Slice(s, start + ValueStart, end)
        data == json_loads(block)
    IN  IF start = -1 THEN Return(EmptyList)
        ELSE IF end = -1 THEN Raise("UnboundLocalError")
        ELSE IF data.kind = "raise" THEN Return(EmptyList)
        ELSE IF data.val.t # "dict" THEN Return(EmptyList)
        ELSE Return(DictGet(data.val.d, realEstates, EmptyList))

extract_realestates(s) ==
    LET start == Find(s, key)
        i == start + Len(key) - 1
        end == ScanEnd(s, i + 1, <<LBRACE>>)
        block == Slice(s, start + ValueStart, end)
        data == json_loads(block)
    IN  IF start = -1 THEN Return(EmptyList)
        ELSE IF end = -1 THEN Return(EmptyList)
        ELSE IF data.kind = "raise" THEN Return(EmptyList)
        ELSE IF data.val.t # "dict" THEN Return(EmptyList)
        ELSE Return(DictGet(data.val.d, realEstates, EmptyList))

---------------------------------------------------------------------------
(* SelectumPropertyParser.decode_text                                      *)

\* bytes.decode with utf-8, strict, from index i: the code points, or failure.
RECURSIVE Utf8Decode(_, _)
Utf8Decode(b, i) ==
    IF i > Len(b) THEN [ok |-> TRUE, v |-> <<>>]
    ELSE
        LET c == b[i]
            \* continuation bytes the lead byte asks for; -1 for no lead byte
            n == IF c < 128 THEN 0
                 ELSE IF c >= 194 /\ c <= 223 THEN 1
                 ELSE IF c >= 224 /\ c <= 239 THEN 2
                 ELSE IF c >= 240 /\ c <= 244 THEN 3
                 ELSE -1
            \* the range of the second byte: no overlong forms, no
            \* surrogates, nothing above U+10FFFF
            lo == IF c = 224 THEN 160 ELSE IF c = 240 THEN 144 ELSE 128
            hi == IF c = 237 THEN 159 ELSE IF c = 244 THEN 143 ELSE 191
            valid == /\ n >= 0
                     /\ i + n <= Len(b)
                     /\ n >= 1 => (b[i + 1] >= lo /\ b[i + 1] <= hi)
                     /\ \A m \in 2..n : b[i + m] >= 128 /\ b[i + m] <= 191
            cp == IF n = 0 THEN c
                  ELSE IF n = 1 THEN (c - 192) * 64 + (b[i + 1] - 128)
                  ELSE IF n = 2
                       THEN (c - 224) * 4096 + (b[i + 1] - 128) * 64 + (b[i + 2] - 128)
                  ELSE (c - 240) * 262144 + (b[i + 1] - 128) * 4096
                           + (b[i + 2] - 128) * 64 + (b[i + 3] - 128)
            rest == Utf8Decode(b, i + n + 1)
        IN  IF valid /\ rest.ok THEN [ok |-> TRUE, v |-> <<cp>> \o rest.v]
            ELSE [ok |-> FALSE]

\* A falsy argument gives the empty string.  encode to latin1 fails on a
\* value that is no str (no such method) and on a code point above 255;
\* the decoding fails on bytes that are not UTF-8; each failure is caught
\* and gives the argument back.
decode_text(v) ==
    IF ~Truthy(v) THEN PStr(<<>>)
    ELSE IF v.t # "str" THEN v
    ELSE IF \E i \in 1..Len(v.s) : v.s[i] > 255 THEN v
    ELSE LET d == Utf8Decode(v.s, 1) IN IF d.ok THEN PStr(d.v) ELSE v

---------------------------------------------------------------------------
(* SelectumPropertyParser.format_estate                                    *)

BASE_IMAGE_URL == Str(<<
    "h","t","t","p","s",":","/","/","s","e","l","e","c","t","u","m","p","r","o","p","e",
    "r","t","y",".","c","o","m","/","_","n","e","x","t","/","i","m","a","g","e","?","u",
    "r","l","=","h","t","t","p","s","%","3","A","%","2","F","%","2","F","s","e","l","e",
    "c","t","u","m","p","r","o","p","e","r","t","y",".","c","o","m","%","2","F","a","p",
    "i","%","2","F","f","i","l","e","s","%","2","F","p","r","o","p","e","r","t","y","-",
    "i","m","a","g","e","s","%","2","F">>)

UrlSuffix == Str(<<"&","w","=","2","0","4","8","&","q","=","7","5">>)

K_id == Str(<<"i","d">>)
K_title == Str(<<"t","i","t","l","e">>)
K_location == Str(<<"l","o","c","a","t","i","o","n">>)
K_area == Str(<<"a","r","e","a">>)
K_houseType == Str(<<"h","o","u","s","e","T","y","p","e">>)
K_images == Str(<<"i","m","a","g","e","s">>)
K_file_name == Str(<<"f","i","l","e","_","n","a","m","e">>)
K_image_urls == Str(<<"i","m","a","g","e","_","u","r","l","s">>)
K_types == Str(<<"t","y","p","e","s">>)
K_name == Str(<<"n","a","m","e">>)
K_bed_room == Str(<<"b","e","d","_","r","o","o","m">>)
K_max_bed == Str(<<"m","a","x","_","b","e","d">>)
K_bathroom == Str(<<"b","a","t","h","r","o","o","m">>)
K_metrage == Str(<<"m","e","t","r","a","g","e">>)
K_price == Str(<<"p","r","i","c","e">>)
K_price_min == Str(<<"p","r","i","c","e","_","m","i","n">>)
K_price_max == Str(<<"p","r","i","c","e","_","m","a","x">>)
K_money_type == Str(<<"m","o","n","e","y","_","t","y","p","e">>)
K_is_multi == Str(<<"i","s","_","m","u","l","t","i">>)

TextKeys == <<K_title, K_location, K_area, K_houseType>>

\* The loop over the four text keys, from the i-th on.
RECURSIVE DecodeFields(_, _)
DecodeFields(result, i) ==
    IF i > Len(TextKeys) THEN result
    ELSE LET k == TextKeys[i]
         IN  IF DictHas(result, k) /\ DictGet(result, k, PNone) # PNone
             THEN DecodeFields(DictSet(result, k, decode_text(DictGet(result, k, PNone))), i + 1)
             ELSE DecodeFields(result, i + 1)

\* What a for loop over v visits: the elements of a list, the characters
\* of a str, the keys of a dict.
IterItems(v) ==
    CASE v.t = "list" -> v.l
      [] v.t = "str" -> [i \in 1..Len(v.s) |-> PStr(<<v.s[i]>>)]
      [] v.t = "dict" -> [i \in 1..Len(v.d) |-> PStr(v.d[i].k)]

Iterable(v) == v.t \in {"list", "str", "dict"}

\* The comprehension keeping every entry, an empty file_name included.
RECURSIVE ImageUrlsFrom_keep_empty(_, _, _)
ImageUrlsFrom_keep_empty(items, i, acc) ==
    IF i > Len(items) THEN Return(PList(acc))
    ELSE LET img == items[i]
             fn == DictGet(img.d, K_file_name, PStr(<<>>))
         IN  IF img.t # "dict" THEN Raise("AttributeError")
             ELSE IF fn.t # "str" THEN Raise("TypeError")
             ELSE ImageUrlsFrom_keep_empty(items, i + 1,
                                Append(acc, PStr(BASE_IMAGE_URL \o fn.s \o UrlSuffix)))

\* The list comprehension over images from its i-th item, acc being the
\* urls built so far: get on an item that is no dict and str + a
\* file_name that is no str raise.
RECURSIVE ImageUrlsFrom(_, _, _)
ImageUrlsFrom(items, i, acc) ==
    IF i > Len(items) THEN Return(PList(acc))
    ELSE LET img == items[i]
             fn == DictGet(img.d, K_file_name, PNone)
         IN  IF img.t # "dict" THEN Raise("AttributeError")
             ELSE IF ~Truthy(fn) THEN ImageUrlsFrom(items, i + 1, acc)
             ELSE IF fn.t # "str" THEN Raise("TypeError")
             ELSE ImageUrlsFrom(items, i + 1,
                                Append(acc, PStr(BASE_IMAGE_URL \o fn.s \o UrlSuffix)))

\* Lines 75-79: the value assigned to image_urls, or the exception.
image_urls(result) ==
    LET images == DictGet(result, K_images, EmptyList)
    IN  IF ~Iterable(images) THEN Raise("TypeError")
        ELSE ImageUrlsFrom(IterItems(images), 1, <<>>)

\* The generator of decoded names from the i-th entry of types on.
RECURSIVE TypeNamesFrom(_, _, _)
TypeNamesFrom(items, i, acc) ==
    IF i > Len(items) THEN Return(PList(acc))
    ELSE LET ty == items[i]
             nm == DictGet(ty.d, K_name, PNone)
         IN  IF ty.t # "dict" THEN Raise("AttributeError")
             ELSE IF ~Truthy(nm) THEN TypeNamesFrom(items, i + 1, acc)
             ELSE TypeNamesFrom(items, i + 1,
                                Append(acc, decode_text(DictGet(ty.d, K_name, PStr(<<>>)))))

CommaSpace == Str(<<","," ">>)

\* sep.join(parts) for strs
RECURSIVE Join(_, _)
Join(sep, parts) ==
    IF parts = <<>> THEN <<>>
    ELSE IF Len(parts) = 1 THEN parts[1].s
    ELSE parts[1].s \o sep \o Join(sep, Tail(parts))

\* Lines 81-87: the value assigned to types, or the exception.  join reads
\* the whole generator, then refuses an item that is no str.
types_string(result) ==
    LET types == DictGet(result, K_types, PNone)
        names == TypeNamesFrom(types.l, 1, <<>>)
    IN  IF ~(Truthy(types) /\ types.t = "list") THEN Return(PStr(<<>>))
        ELSE IF names.kind = "raise" THEN names
        ELSE IF \E i \in 1..Len(names.val.l) : names.val.l[i].t # "str"
             THEN Raise("TypeError")
        ELSE Return(PStr(Join(CommaSpace, names.val.l)))

\* The local result when format_estate ends, by return or by exception.
format_locals(e) ==
    LET r1 == DecodeFields(e.d, 1)
        urls == image_urls(r1)
        r2 == DictSet(r1, K_image_urls, urls.val)
        ty == types_string(r2)
    IN  IF urls.kind = "raise" THEN r1
        ELSE IF ty.kind = "raise" THEN r2
        ELSE DictSet(r2, K_types, ty.val)

format_estate(e) ==
    LET r1 == DecodeFields(e.d, 1)
        urls == image_urls(r1)
        ty == types_string(DictSet(r1, K_image_urls, urls.val))
    IN  IF urls.kind = "raise" THEN urls
        ELSE IF ty.kind = "raise" THEN ty
        ELSE Return(PDict(format_locals(e)))

---------------------------------------------------------------------------
(* SelectumPropertyParser.get_realestates_page and get_all_realestates     *)

\* The list comprehension applying format_estate to raw[i], raw[i+1], ...
RECURSIVE FormatAll(_, _, _)
FormatAll(raw, i, acc) ==
    IF i > Len(raw) THEN Return(PList(acc))
    ELSE LET r == format_estate(raw[i])
         IN  IF r.kind = "raise" THEN r ELSE FormatAll(raw, i + 1, Append(acc, r.val))

\* get_realestates_page once the response text is in: extraction, then the
\* normalizer on each record.  A realEstates value that is no list cannot
\* be looped over as records.
get_realestates_page(response_text) ==
    LET raw_estates == extract_realestates(response_text).val
    IN  IF raw_estates.t # "list" THEN Raise("TypeError")
        ELSE FormatAll(raw_estates.l, 1, <<>>)

Unbound == [t |-> "unbound"]

\* The range running one page too far.
LastPage_one_more(n) == n + 1

\* range(1, max_pages + 1): its last element
LastPage(n) == n

\* The loop without its break.
Breaks_never(page_estates) == FALSE

\* if not estates: break
Breaks(page_estates) == ~Truthy(page_estates)

\* The statements after the loop: the page count logged and the outcome.
\* Reading estates while it is unbound raises.
Summary(p, last, all) ==
    IF last = Unbound THEN [pages |-> Unbound, ret |-> Raise("UnboundLocalError")]
    ELSE [pages |-> IF Truthy(last) THEN p ELSE PInt(p.n - 1), ret |-> Return(PList(all))]

---------------------------------------------------------------------------
(* SelectumPropertyParser.save_to_postgres                                 *)

PyTrue == Str(<<"T","r","u","e">>)
PyFalse == Str(<<"F","a","l","s","e">>)

\* str(v), for the values a types field holds after format_estate
str(v) ==
    CASE v.t = "str" -> v
      [] v.t = "int" -> PStr(IF v.n < 0 THEN <<MINUS>> \o Decimal(-v.n) ELSE Decimal(v.n))
      [] v.t = "bool" -> PStr(IF v.b THEN PyTrue ELSE PyFalse)

\* The tuple built for one record: the sixteen columns, None for a key the
\* record lacks.
RowOf(e) ==
    LET get(k) == DictGet(e.d, k, PNone)
    IN  [id |-> get(K_id),
         title |-> get(K_title),
         bed_room |-> get(K_bed_room),
         max_bed |-> get(K_max_bed),
         bathroom |-> get(K_bathroom),
         metrage |-> get(K_metrage),
         price |-> get(K_price),
         price_min |-> get(K_price_min),
         price_max |-> get(K_price_max),
         location |-> get(K_location),
         area |-> get(K_area),
         money_type |-> get(K_money_type),
         is_multi |-> get(K_is_multi),
         houseType |-> get(K_houseType),
         types |-> IF get(K_types) # PNone THEN str(get(K_types)) ELSE PNone,
         image_urls |-> get(K_image_urls)]

\* An update that adds the proposed urls to the stored ones.
DoUpdate_append_urls(old, excluded) ==
    [excluded EXCEPT !.image_urls =
        IF old.image_urls.t = "list" /\ excluded.image_urls.t = "list"
        THEN PList(old.image_urls.l \o excluded.image_urls.l)
        ELSE excluded.image_urls]

\* ON CONFLICT (id) DO UPDATE SET ...: the stored row takes the fifteen
\* columns of the row proposed for insertion.
DoUpdate(old, excluded) ==
    [old EXCEPT !.title = excluded.title,
                !.bed_room = excluded.bed_room,
                !.max_bed = excluded.max_bed,
                !.bathroom = excluded.bathroom,
                !.metrage = excluded.metrage,
                !.price = excluded.price,
                !.price_min = excluded.price_min,
                !.price_max = excluded.price_max,
                !.location = excluded.location,
                !.area = excluded.area,
                !.money_type = excluded.money_type,
                !.is_multi = excluded.is_multi,
                !.houseType = excluded.houseType,
                !.types = excluded.types,
                !.image_urls = excluded.image_urls]

\* id is the primary key of the table: a row needs one.
PrimaryKeyMissing(rows) == \E i \in 1..Len(rows) : rows[i].id = PNone

\* One row of an INSERT ... ON CONFLICT (id) DO UPDATE applied to a table.
Upsert(table, row) ==
    IF \E r \in table : r.id = row.id
    THEN {IF r.id = row.id THEN DoUpdate(r, row) ELSE r : r \in table}
    ELSE table \cup {row}

RECURSIVE UpsertAll(_, _, _)
UpsertAll(table, rows, i) ==
    IF i > Len(rows) THEN table ELSE UpsertAll(Upsert(table, rows[i]), rows, i + 1)

\* One INSERT statement with its rows: it fails as a whole on a row
\* without id and on two rows with one id (a row cannot be affected twice
\* by one statement).
Statement(table, rows) ==
    IF \/ PrimaryKeyMissing(rows)
       \/ \E i, j \in 1..Len(rows) : i < j /\ rows[i].id = rows[j].id
    THEN [ok |-> FALSE, table |-> table]
    ELSE [ok |-> TRUE, table |-> UpsertAll(table, rows, 1)]

\* execute_values: the rows go out in statements of at most 100 (its
\* page_size default), one after another in the transaction.  failing is
\* the number of the statement on which the server or the link fails, 0
\* for none.
RECURSIVE execute_values(_, _, _, _)
execute_values(table, rows, n, failing) ==
    IF rows = <<>> THEN [ok |-> TRUE, table |-> table]
    ELSE LET size == IF Len(rows) < 100 THEN Len(rows) ELSE 100
             st == Statement(table, SubSeq(rows, 1, size))
         IN  IF n = failing \/ ~st.ok THEN [ok |-> FALSE, table |-> table]
             ELSE execute_values(st.table, SubSeq(rows, size + 1, Len(rows)), n + 1, failing)

\* A connection in autocommit mode: every statement that ran is kept.
Committed_autocommit(before, work, fault) ==
    IF fault \in {"connect", "cursor"} THEN before ELSE work.table

\* What is committed when the call ends: the work of the transaction after
\* a commit, the rows as they were when an exception came first (close
\* discards what was not committed).
Committed(before, work, fault) ==
    IF fault \in {"none", "execute"} /\ work.ok THEN work.table ELSE before

Faults == {"none", "connect", "cursor", "execute", "commit"}

\* save_to_postgres(estates) on the committed rows, with the step that
\* fails for a reason outside the data (none, connect, cursor, the first
\* statement of execute_values if there is one, commit): the rows
\* committed at the end, whether the try block ran to its end, what was
\* logged, and the outcome of the call.
save_to_postgres(before, batch, fault) ==
    LET rows == [i \in 1..Len(batch) |-> RowOf(batch[i])]
        work == execute_values(before, rows, 1, IF fault = "execute" THEN 1 ELSE 0)
        ok == fault \in {"none", "execute"} /\ work.ok
    IN  [store |-> Committed(before, work, fault),
         ok |-> ok,
         log |-> IF ok THEN "info" ELSE "error",
         ret |-> Return(PNone)]

---------------------------------------------------------------------------
(* Page texts for the extractor: noise (text without the key), then a      *)
(* payload, then noise.  A payload is the key without its brace followed   *)
(* by the serialization of an object holding a realEstates array, or a     *)
(* text that is not such a serialization.                                  *)

MaxRecords == 2

\* Title strings: plain, a closing brace, an opening brace, a balanced pair.
BraceTitles == {Str(<<"a">>), Str(<<"}">>), Str(<<"{">>), Str(<<"{","}">>)}

RawRecords ==
    {PDict(<<Item(K_id, PInt(1))>>), PDict(<<Item(K_id, PInt(2))>>)}
    \cup {PDict(<<Item(K_id, PInt(1)), Item(K_title, PStr(t))>>) : t \in BraceTitles}

RECURSIVE SeqsUpTo(_, _)
\* The sequences over S of length at most n.
SeqsUpTo(S, n) ==
    IF n = 0 THEN {<<>>}
    ELSE LET shorter == SeqsUpTo(S, n - 1)
         IN  shorter \cup {Append(q, x) : q \in shorter, x \in S}

\* Objects with a realEstates array: alone, or among other members.
RealEstatesData ==
    LET lists == {PList(l) : l \in SeqsUpTo(RawRecords, MaxRecords)}
    IN  {PDict(<<Item(realEstates, l)>>) : l \in lists}
        \cup {PDict(<<Item(Str(<<"t","o","t","a","l">>), PInt(12)),
                      Item(realEstates, l),
                      Item(Str(<<"m","e","t","a">>),
                           PDict(<<Item(Str(<<"p","a","g","e">>), PInt(1))>>))>>)
              : l \in lists}

KeyNoBrace == SubSeq(key, 1, Len(key) - 1)

NoiseBefore == {
    <<>>,
    Str(<<"<","p",">","{">>),
    Str(<<"}","x",":">>),
    Str(<<"[","{","}","]",";">>)}

NoiseAfter == {
    <<>>,
    Str(<<"}","<","/","p",">">>),
    Str(<<",","{","\"","x","\"">>)}

\* Payloads that are no serialization of such an object.
OtherPayloads == {
    <<>>,
    key \o Str(<<"}",";">>) \o KeyNoBrace \o Str(<<"{","\"","r","e","a","l","E","s","t","a","t","e","s","\"",":","[","{","\"","i","d","\"",":","1","}","]","}">>),
    Str(<<"<","h","t","m","l",">">>),
    KeyNoBrace \o Str(<<" ","{","\"","r","e","a","l","E","s","t","a","t","e","s","\"",":","[","]","}">>),
    KeyNoBrace \o Str(<<"{","\"","r","e","a","l","E","s","t","a","t","e","s","\"",":","[","{","\"","i","d","\"",":","1","}">>),
    KeyNoBrace \o Str(<<"{","\"","r","e","a","l","E","s","t","a","t","e","s","\"",":","[","{","\"","i","d","\"",":","1","}","]">>),
    KeyNoBrace \o Str(<<"{","\"","r","e","a","l","E","s","t","a","t","e","s","\"",":","[","1",",","]","}">>),
    KeyNoBrace \o Str(<<"{","r","e","a","l","E","s","t","a","t","e","s",":","[","]","}">>),
    KeyNoBrace \o Str(<<"{","\"","o","t","h","e","r","\"",":","[","7","]","}">>),
    KeyNoBrace \o Str(<<"{","\"","r","e","a","l","E","s","t","a","t","e","s","\"",":","n","u","l","l","}">>),
    KeyNoBrace \o Str(<<"{"," ","}">>)}

Payloads ==
    {[obj |-> o, chars |-> KeyNoBrace \o Dumps(o)] : o \in RealEstatesData}
    \cup {[obj |-> PNone, chars |-> c] : c \in OtherPayloads}

---------------------------------------------------------------------------
(* Records for the normalizer.  Absent marks a key the record lacks.       *)

MaxImages == 2
MaxTypes == 2

Absent == [t |-> "absent"]

\* The dict of the items whose value is not Absent.
Rec(items) == PDict(SelectSeq(items, LAMBDA it : it.v # Absent))

\* Text values: none, empty, ASCII, UTF-8 bytes read as Latin-1 (two, three
\* and four bytes), bytes that are no UTF-8, a code point above 255, and
\* values that are no text.
TextValues == {
    Absent, PNone, PStr(<<>>), PStr(Str(<<"a","b","c">>)),
    PStr(<<86, 195, 169>>), PStr(<<226, 130, 172, 53>>), PStr(<<240, 159, 143, 160>>),
    PStr(<<233>>), PStr(<<195>>), PStr(<<192, 128>>), PStr(<<237, 160, 128>>),
    PStr(<<1071, 195, 169>>),
    PInt(0), PInt(5), PBool(TRUE), PList(<<PStr(Str(<<"a","b","c">>))>>)}

\* Image entries: objects whose file_name is a string, null or missing.
ImageEntries == {
    PDict(<<Item(K_file_name, PStr(Str(<<"a",".","j","p","g">>)))>>),
    PDict(<<Item(K_id, PInt(3)), Item(K_file_name, PStr(Str(<<"b",".","p","n","g">>)))>>),
    PDict(<<Item(K_file_name, PStr(<<>>))>>),
    PDict(<<Item(K_file_name, PNone)>>),
    PDict(<<Item(K_id, PInt(4))>>)}

ImageLists == {PList(l) : l \in SeqsUpTo(ImageEntries, MaxImages)}

\* Other values of images the source may send.
OtherImages == {
    PNone, PInt(7), PStr(<<>>), PStr(Str(<<"a",".","j","p","g">>)), PDict(<<>>),
    PList(<<PStr(Str(<<"a",".","j","p","g">>))>>),
    PList(<<PDict(<<Item(K_file_name, PInt(5))>>)>>),
    PList(<<PDict(<<Item(K_file_name, PStr(Str(<<"a",".","j","p","g">>)))>>), PNone>>)}

\* Type entries: objects whose name is a string, null or missing.
TypeEntries == {
    PDict(<<Item(K_name, PStr(Str(<<"V","i","l","l","a">>)))>>),
    PDict(<<Item(K_id, PInt(2)), Item(K_name, PStr(Str(<<"C","o","n","d","o">>)))>>),
    PDict(<<Item(K_name, PStr(<<86, 195, 169>>))>>),
    PDict(<<Item(K_name, PStr(<<>>))>>),
    PDict(<<Item(K_id, PInt(9))>>)}

TypeLists == {PList(l) : l \in SeqsUpTo(TypeEntries, MaxTypes)}

\* Other values of types the source may send.
OtherTypes == {
    PNone, PStr(Str(<<"n","o","t","-","a","-","l","i","s","t">>)), PInt(3), PDict(<<>>),
    PList(<<PStr(Str(<<"V","i","l","l","a">>))>>),
    PList(<<PDict(<<Item(K_name, PInt(5))>>)>>),
    PList(<<PDict(<<Item(K_name, PStr(Str(<<"V","i","l","l","a">>)))>>), PInt(1)>>)}

RawEstate(title, location, houseType, images, types) ==
    Rec(<<Item(K_id, PInt(1)), Item(K_title, title), Item(K_location, location),
          Item(K_price, PInt(250)), Item(K_houseType, houseType),
          Item(K_images, images), Item(K_types, types)>>)

\* Each field swept over its values, the others over a few.
Estates ==
    {RawEstate(t, l, h, Absent, Absent) :
        t \in TextValues, l \in {Absent, PStr(<<86, 195, 169>>)}, h \in {Absent, PInt(5)}}
    \cup {RawEstate(PStr(Str(<<"a","b","c">>)), Absent, Absent, i, ty) :
        i \in ({Absent} \cup ImageLists \cup OtherImages),
        ty \in {Absent, PList(<<PDict(<<Item(K_name, PStr(Str(<<"V","i","l","l","a">>)))>>)>>),
                PList(<<PStr(Str(<<"V","i","l","l","a">>))>>)}}
    \cup {RawEstate(Absent, Absent, Absent, i, ty) :
        i \in {Absent, PList(<<PDict(<<Item(K_file_name, PStr(Str(<<"a",".","j","p","g">>)))>>)>>), PNone},
        ty \in ({Absent} \cup TypeLists \cup OtherTypes)}

---------------------------------------------------------------------------
(* The paginator.  The fetch collaborator answers each request with one of *)
(* a few page texts.                                                       *)

MaxPages == 4

PageOf(records) == KeyNoBrace \o Dumps(PDict(<<Item(realEstates, PList(records))>>))

\* A page of one record and a page of two.
PageA ==
    Str(<<"<","p",">">>)
    \o PageOf(<<Rec(<<Item(K_id, PInt(1)),
                     Item(K_title, PStr(<<86, 195, 169>>)),
                     Item(K_images, PList(<<PDict(<<Item(K_file_name, PStr(Str(<<"a",".","j","p","g">>)))>>)>>)),
                     Item(K_types, PList(<<PDict(<<Item(K_name, PStr(Str(<<"V","i","l","l","a">>)))>>)>>))>>)>>)
    \o Str(<<"<","/","p",">">>)

PageB ==
    PageOf(<<Rec(<<Item(K_id, PInt(2))>>),
             Rec(<<Item(K_id, PInt(3)), Item(K_title, PStr(Str(<<"b">>)))>>)>>)

\* A page without the key, and a page cut off inside its payload.
PageNoKey == Str(<<"<","h","t","m","l",">">>)
PageCut == SubSeq(PageB, 1, Len(PageB) - 2)

\* A page with a record whose images is null.
PageNullImages == PageOf(<<Rec(<<Item(K_id, PInt(4)), Item(K_images, PNone)>>)>>)

PageTexts == {PageA, PageB, PageNoKey, PageCut, PageNullImages}

---------------------------------------------------------------------------
(* The sink.  The batches are sequences of records as format_estate        *)
(* returns them.                                                           *)

MaxBatch == 2

Normalized(raw) == format_estate(raw).val

\* Two records with one id, a record with another id, a record without id.
SinkEstates == {
    Normalized(Rec(<<Item(K_id, PInt(1)), Item(K_title, PStr(Str(<<"a">>))),
                     Item(K_price, PInt(250)),
                     Item(K_images, PList(<<PDict(<<Item(K_file_name, PStr(Str(<<"a",".","j","p","g">>)))>>)>>)),
                     Item(K_types, PList(<<PDict(<<Item(K_name, PStr(Str(<<"V","i","l","l","a">>)))>>)>>))>>)),
    Normalized(Rec(<<Item(K_id, PInt(1)), Item(K_title, PStr(Str(<<"b">>))),
                     Item(K_images, PList(<<PDict(<<Item(K_file_name, PStr(Str(<<"b",".","p","n","g">>)))>>)>>))>>)),
    Normalized(Rec(<<Item(K_id, PInt(2)), Item(K_location, PStr(Str(<<"c">>)))>>)),
    Normalized(Rec(<<Item(K_title, PStr(Str(<<"d">>)))>>))}

Batches == SeqsUpTo(SinkEstates, MaxBatch)

\* Rows in the table before the first call.
OldRows == {
    RowOf(Normalized(Rec(<<Item(K_id, PInt(1)), Item(K_title, PStr(Str(<<"o">>))),
                           Item(K_max_bed, PInt(3)),
                           Item(K_images, PList(<<PDict(<<Item(K_file_name, PStr(Str(<<"o",".","g","i","f">>)))>>)>>))>>))),
    RowOf(Normalized(Rec(<<Item(K_id, PInt(3)), Item(K_title, PStr(Str(<<"p">>)))>>)))}

NoCall == [estates |-> <<>>, fault |-> "none", ok |-> FALSE, log |-> "none", ret |-> Pending]

---------------------------------------------------------------------------
(* Specifications.                                                         *)

vars == <<extractVars, formatVars, pageVars, sinkVars>>

\* The extractor: a page text is drawn, extract_realestates is applied.
InitExtractor ==
    /\ \E nb \in NoiseBefore, p \in Payloads, na \in NoiseAfter :
          /\ text = nb \o p.chars \o na
          /\ extract_src = [before |-> nb, obj |-> p.obj, after |-> na]
    /\ extract_ret = Pending
    /\ estate = PNone
    /\ format_ret = Pending
    /\ format_result = <<>>
    /\ pc = "idle"
    /\ max_pages = 0
    /\ page = Unbound
    /\ estates = Unbound
    /\ all_estates = <<>>
    /\ fetched = <<>>
    /\ pages_logged = Unbound
    /\ getall_ret = Pending
    /\ store = {}
    /\ last_call = NoCall
    /\ repeated = FALSE
    /\ changed = FALSE

\* One call of extract_realestates on the page text.
Extract ==
    /\ extract_ret = Pending
    /\ extract_ret' = extract_realestates(text)
    /\ UNCHANGED <<text, extract_src, formatVars, pageVars, sinkVars>>

NextExtractor == Extract

SpecExtractor == InitExtractor /\ [][NextExtractor]_vars

\* The normalizer: a record is drawn, format_estate is applied.
InitNormalizer ==
    /\ text = <<>>
    /\ extract_src = [before |-> <<>>, obj |-> PNone, after |-> <<>>]
    /\ extract_ret = Pending
    /\ estate \in Estates
    /\ format_ret = Pending
    /\ format_result = <<>>
    /\ pc = "idle"
    /\ max_pages = 0
    /\ page = Unbound
    /\ estates = Unbound
    /\ all_estates = <<>>
    /\ fetched = <<>>
    /\ pages_logged = Unbound
    /\ getall_ret = Pending
    /\ store = {}
    /\ last_call = NoCall
    /\ repeated = FALSE
    /\ changed = FALSE

\* One call of format_estate on the record.
Format ==
    /\ format_ret = Pending
    /\ format_ret' = format_estate(estate)
    /\ format_result' = format_locals(estate)
    /\ UNCHANGED <<estate, extractVars, pageVars, sinkVars>>

NextNormalizer == Format

SpecNormalizer == InitNormalizer /\ [][NextNormalizer]_vars

\* The paginator: get_all_realestates is called once.
InitPaginator ==
    /\ text = <<>>
    /\ extract_src = [before |-> <<>>, obj |-> PNone, after |-> <<>>]
    /\ extract_ret = Pending
    /\ estate = PNone
    /\ format_ret = Pending
    /\ format_result = <<>>
    /\ pc = "idle"
    /\ max_pages = 0
    /\ page = Unbound
    /\ estates = Unbound
    /\ all_estates = <<>>
    /\ fetched = <<>>
    /\ pages_logged = Unbound
    /\ getall_ret = Pending
    /\ store = {}
    /\ last_call = NoCall
    /\ repeated = FALSE
    /\ changed = FALSE

\* get_all_realestates(max_pages) is called: all_estates = []
Call ==
    /\ pc = "idle"
    /\ \E n \in 0..MaxPages : max_pages' = n
    /\ pc' = "loop"
    /\ all_estates' = <<>>
    /\ UNCHANGED <<page, estates, fetched, pages_logged, getall_ret>>
    /\ UNCHANGED <<extractVars, formatVars, sinkVars>>

NextPage == IF page = Unbound THEN 1 ELSE page.n + 1

\* One turn of the loop: the page is fetched and parsed; an exception
\* leaves the function, an empty page breaks out to the summary and the
\* return, any other page is accumulated.
FetchPage ==
    /\ pc = "loop"
    /\ NextPage <= LastPage(max_pages)
    /\ \E response_text \in PageTexts :
        \E got \in {get_realestates_page(response_text)} :
          LET end == Summary(PInt(NextPage), got.val, all_estates)
          IN  /\ page' = PInt(NextPage)
              /\ fetched' = Append(fetched, [page |-> NextPage, text |-> response_text])
              /\ IF got.kind = "raise"
                 THEN /\ pc' = "raised"
                      /\ getall_ret' = got
                      /\ UNCHANGED <<estates, all_estates, pages_logged>>
                 ELSE IF Breaks(got.val)
                 THEN /\ pc' = "done"
                      /\ estates' = got.val
                      /\ pages_logged' = end.pages
                      /\ getall_ret' = end.ret
                      /\ UNCHANGED all_estates
                 ELSE /\ pc' = "loop"
                      /\ estates' = got.val
                      /\ all_estates' = all_estates \o got.val.l
                      /\ UNCHANGED <<pages_logged, getall_ret>>
    /\ UNCHANGED <<max_pages, extractVars, formatVars, sinkVars>>

\* The range is used up: the summary and the return.
LoopEnds ==
    /\ pc = "loop"
    /\ NextPage > LastPage(max_pages)
    /\ LET end == Summary(page, estates, all_estates)
       IN  /\ pc' = IF end.ret.kind = "raise" THEN "raised" ELSE "done"
           /\ pages_logged' = end.pages
           /\ getall_ret' = end.ret
    /\ UNCHANGED <<max_pages, page, estates, all_estates, fetched>>
    /\ UNCHANGED <<extractVars, formatVars, sinkVars>>

NextPaginator == Call \/ FetchPage \/ LoopEnds

SpecPaginator == InitPaginator /\ [][NextPaginator]_vars

\* The call runs to its end: a step that can be taken is taken.
SpecPaginatorFair == SpecPaginator /\ WF_vars(NextPaginator)

\* The sink: save_to_postgres is called again and again on a table that
\* is empty or holds rows already.  last_call records the latest call,
\* changed whether it altered the committed rows, repeated whether it ran
\* on the records of the call before it with nothing failing outside the
\* data in either.
InitSink ==
    /\ text = <<>>
    /\ extract_src = [before |-> <<>>, obj |-> PNone, after |-> <<>>]
    /\ extract_ret = Pending
    /\ estate = PNone
    /\ format_ret = Pending
    /\ format_result = <<>>
    /\ pc = "idle"
    /\ max_pages = 0
    /\ page = Unbound
    /\ estates = Unbound
    /\ all_estates = <<>>
    /\ fetched = <<>>
    /\ pages_logged = Unbound
    /\ getall_ret = Pending
    /\ store \in {{}, OldRows}
    /\ last_call = NoCall
    /\ repeated = FALSE
    /\ changed = FALSE

\* One call of save_to_postgres, whole: from connect to close.
Save ==
    /\ \E batch \in Batches, fault \in Faults :
        \E out \in {save_to_postgres(store, batch, fault)} :
          /\ store' = out.store
          /\ last_call' = [estates |-> batch, fault |-> fault, ok |-> out.ok,
                           log |-> out.log, ret |-> out.ret]
          /\ repeated' = /\ last_call.ret # Pending
                          /\ last_call.estates = batch
                          /\ last_call.fault = "none"
                          /\ fault = "none"
          /\ changed' = (out.store # store)
    /\ UNCHANGED <<extractVars, formatVars, pageVars>>

NextSink == Save

SpecSink == InitSink /\ [][NextSink]_vars

---------------------------------------------------------------------------
(* Claims about the extractor.                                             *)

ExtractDone == extract_ret # Pending

\* C1: for every object O holding a realEstates array and every noise
\* before and after, extract_realestates applied to noise_before, the key,
\* the serialization of O and noise_after returns the realEstates array of
\* O, element for element and in order.
C1_RoundTrip ==
    (ExtractDone /\ extract_src.obj.t = "dict")
        => extract_ret = Return(DictGet(extract_src.obj.d, realEstates, PNone))

\* The three failures of C2, stated on the text alone.
MarkerAbsent(s) == \A i \in 0..(Len(s) - Len(key)) : Slice(s, i, i + Len(key)) # key

\* The index of the brace that ends the first occurrence of the key.
BraceAt(s) ==
    (CHOOSE i \in 0..(Len(s) - Len(key)) :
        /\ Slice(s, i, i + Len(key)) = key
        /\ \A h \in 0..(i - 1) : Slice(s, h, h + Len(key)) # key) + Len(key) - 1

\* Opening minus closing braces among s[a..j].
Depth(s, a, j) ==
    Cardinality({m \in a..j : At(s, m) = LBRACE})
        - Cardinality({m \in a..j : At(s, m) = RBRACE})

Unbalanced(s) ==
    /\ ~MarkerAbsent(s)
    /\ \A j \in BraceAt(s)..(Len(s) - 1) : Depth(s, BraceAt(s), j) > 0

\* The text from the brace to the first index at which the depth is zero.
BalancedBlock(s) ==
    LET a == BraceAt(s)
        e == CHOOSE j \in a..(Len(s) - 1) :
                 Depth(s, a, j) = 0 /\ \A m \in a..(j - 1) : Depth(s, a, m) > 0
    IN  Slice(s, a, e + 1)

BlockParseFails(s) ==
    /\ ~MarkerAbsent(s)
    /\ ~Unbalanced(s)
    /\ json_loads(BalancedBlock(s)).kind = "raise"

\* C2: no call of extract_realestates raises, and when the marker is
\* absent, or the braces after it never balance, or the balanced block is
\* not JSON, the call returns the empty list.
C2_FailureIsEmpty ==
    ExtractDone =>
        /\ extract_ret.kind = "return"
        /\ (MarkerAbsent(text) \/ Unbalanced(text) \/ BlockParseFails(text))
              => extract_ret = Return(EmptyList)

\* A call returned the empty list for a block that is balanced but not JSON.
C2_Witness ==
    ExtractDone /\ BlockParseFails(text) /\ extract_ret = Return(EmptyList)

---------------------------------------------------------------------------
(* Claims about the normalizer.                                            *)

FormatDone == format_ret # Pending

\* C7: format_estate returns a record and raises nothing, for every record,
\* whatever JSON values its title, location, area, houseType, images and
\* types hold, null and absent included.
C7_NormalizerTotal == FormatDone => format_ret.kind = "return"

\* The images field is absent or a list of objects whose file_name is a
\* string, null or missing.
ImagesAreEntries(e) ==
    DictHas(e.d, K_images) =>
        LET images == DictGet(e.d, K_images, PNone)
        IN  /\ images.t = "list"
            /\ \A i \in 1..Len(images.l) :
                  /\ images.l[i].t = "dict"
                  /\ DictGet(images.l[i].d, K_file_name, PNone).t \in {"str", "none"}

HasFileName(img) == DictGet(img.d, K_file_name, PStr(<<>>)) \notin {PStr(<<>>), PNone}

\* One url for each entry with a non-empty file_name, in the order of images.
ExpectedUrls(e) ==
    LET named == SelectSeq(DictGet(e.d, K_images, EmptyList).l, HasFileName)
    IN  PList([i \in 1..Len(named) |->
                  PStr(BASE_IMAGE_URL \o DictGet(named[i].d, K_file_name, PNone).s
                           \o UrlSuffix)])

\* C8: for a record whose images is a list of entries (or that has no
\* images), format_estate sets image_urls to BASE_IMAGE_URL + file_name +
\* the suffix for exactly the entries with a non-empty file_name, in the
\* order of images; the record it returns carries that value.
C8_ImageUrls ==
    (FormatDone /\ ImagesAreEntries(estate)) =>
        /\ DictGet(format_result, K_image_urls, PNone) = ExpectedUrls(estate)
        /\ format_ret.kind = "return"
              => DictGet(format_ret.val.d, K_image_urls, PNone) = ExpectedUrls(estate)

\* Two images, the first named and the second with an empty file_name,
\* gave exactly one url.
C8_Witness ==
    /\ FormatDone
    /\ ImagesAreEntries(estate)
    /\ DictHas(estate.d, K_images)
    /\ Len(DictGet(estate.d, K_images, PNone).l) = 2
    /\ DictGet(DictGet(estate.d, K_images, PNone).l[2].d, K_file_name, PNone) = PStr(<<>>)
    /\ format_ret.kind = "return"
    /\ Len(DictGet(format_ret.val.d, K_image_urls, PNone).l) = 1

HasName(ty) == ty.t = "dict" /\ Truthy(DictGet(ty.d, K_name, PNone))

\* The decoded names of the named entries joined by comma and space for a
\* list, the empty string for anything else.
ExpectedTypes(e) ==
    LET types == DictGet(e.d, K_types, PNone)
        named == SelectSeq(types.l, HasName)
    IN  IF types.t # "list" THEN PStr(<<>>)
        ELSE PStr(Join(CommaSpace,
                       [i \in 1..Len(named) |-> decode_text(DictGet(named[i].d, K_name, PNone))]))

\* C9: for every record, after format_estate the types field is a string:
\* for a list, the decoded names of the entries with a non-empty name, in
\* order, joined by comma and space; for an absent types, one that is no
\* list or one without named entries, the empty string.
C9_TypesFlattening ==
    FormatDone =>
        /\ format_ret.kind = "return"
        /\ DictGet(format_ret.val.d, K_types, PNone) = ExpectedTypes(estate)

---------------------------------------------------------------------------
(* Claims about the paginator.                                             *)

Ended == pc \in {"done", "raised"}

\* What the i-th fetched page yields: its normalized records, or the
\* exception that leaves get_realestates_page.
Yield(i) == get_realestates_page(fetched[i].text)

YieldsRecords(i) == Yield(i).kind = "return" /\ Yield(i).val.l # <<>>

YieldsNothing(i) == Yield(i) = Return(EmptyList)

\* The records of the first n fetched pages, page after page.
RECURSIVE RecordsOf(_)
RecordsOf(n) == IF n = 0 THEN <<>> ELSE RecordsOf(n - 1) \o Yield(n).val.l

\* C3: the pages fetched are 1, 2, ... in increasing order; when page k is
\* the first to yield zero normalized records it is the last page fetched
\* and the call returns the records of pages 1..k-1, page after page; and
\* a call that returns before max_pages fetches has stopped on such a page.
C3_StopsAtFirstEmpty ==
    /\ \A i \in 1..Len(fetched) : fetched[i].page = i
    /\ \A i \in 1..(Len(fetched) - 1) : YieldsRecords(i)
    /\ \A k \in 1..Len(fetched) :
          YieldsNothing(k) =>
              /\ k = Len(fetched)
              /\ k <= max_pages
              /\ pc = "done"
              /\ getall_ret = Return(PList(RecordsOf(k - 1)))
    /\ (pc = "done" /\ Len(fetched) < max_pages)
          => (fetched # <<>> /\ YieldsNothing(Len(fetched)))

\* Page 3 was the first empty page of a call allowed more pages: three
\* fetches, and the records of pages 1 and 2 returned.
C3_Witness ==
    /\ pc = "done"
    /\ Len(fetched) = 3
    /\ max_pages > 3
    /\ YieldsNothing(3)
    /\ fetched[1].text # fetched[2].text
    /\ getall_ret = Return(PList(Yield(1).val.l \o Yield(2).val.l))

\* The safety part of C4.
C4_Bound ==
    /\ Len(fetched) <= max_pages
    /\ (Ended /\ max_pages >= 1 /\ \A i \in 1..Len(fetched) : YieldsRecords(i))
          => /\ Len(fetched) = max_pages
             /\ \A i \in 1..max_pages : fetched[i].page = i
             /\ getall_ret = Return(PList(RecordsOf(max_pages)))

\* C4: in no run are more than max_pages pages fetched; the call ends;
\* and when max_pages is N >= 1 and no page fetched is empty it ends
\* after exactly N fetches, of pages 1..N, returning the records of all N.
C4_MaxPageBound == [](C4_Bound) /\ <>Ended

\* A call with max_pages >= 2 that never met an empty page has ended after
\* max_pages fetches.
C4_Witness ==
    /\ pc = "done"
    /\ max_pages >= 2
    /\ Len(fetched) = max_pages
    /\ \A i \in 1..Len(fetched) : YieldsRecords(i)
    /\ getall_ret = Return(PList(RecordsOf(max_pages)))

\* C10: for every max_pages >= 0 a call in which every page fetched was
\* parsed returns and raises nothing; with max_pages = 0 it fetches
\* nothing and returns the empty list.
C10_ReturnsNormally ==
    (Ended /\ \A i \in 1..Len(fetched) : Yield(i).kind = "return")
        => /\ getall_ret.kind = "return"
           /\ max_pages = 0 => (fetched = <<>> /\ getall_ret = Return(EmptyList))

---------------------------------------------------------------------------
(* Claims about the sink.                                                  *)

Called == last_call.ret # Pending

\* C5: save_to_postgres run a second time on the same records leaves
\* every row of the table, in all sixteen columns, as the first run left
\* it, whatever the table held before the first run.
C5_UpsertIdempotent == repeated => ~changed

\* A batch was written twice over rows that were there before: the row
\* with id 1 was overwritten, the row with id 3 is still there.
C5_Witness ==
    /\ repeated
    /\ last_call.ok
    /\ ~changed
    /\ \E r \in store : r.id = PInt(3)
    /\ \E r \in store : r.id = PInt(1) /\ r.max_bed = PNone /\ r.image_urls # EmptyList

\* C6: a call in which a step between connect and commit fails leaves the
\* table as it was, logs the failure and returns without raising; a call
\* that succeeds has put every row of its batch in the table.
C6_AllOrNothing ==
    Called =>
        /\ last_call.ret = Return(PNone)
        /\ ~last_call.ok => (~changed /\ last_call.log = "error")
        /\ last_call.ok =>
              \A i \in 1..Len(last_call.estates) : RowOf(last_call.estates[i]) \in store

\* The commit failed after the statement had run on two rows that the
\* table does not hold: nothing was kept and the failure was logged.
C6_Witness ==
    /\ Called
    /\ last_call.fault = "commit"
    /\ Len(last_call.estates) = 2
    /\ \A i \in 1..2 : RowOf(last_call.estates[i]) \notin store
    /\ last_call.estates[1] # last_call.estates[2]
    /\ RowOf(last_call.estates[1]).id # RowOf(last_call.estates[2]).id
    /\ RowOf(last_call.estates[1]).id # PNone
    /\ RowOf(last_call.estates[2]).id # PNone
    /\ ~changed
    /\ last_call.log = "error"
    /\ last_call.ret = Return(PNone)

=============================================================================
